---- MODULE Spec2Model ----
(***************************************************************************)
(* Model of TelescopeCalc/js/telescopeCalculator.js: the TelescopeCalc     *)
(* class (constructor, getters, setters, six calc* methods) and the form   *)
(* handlers of telescopeCalcInterface.js that drive it.                     *)
(*                                                                         *)
(* JavaScript numbers are binary floating point.  They are modelled as a   *)
(* binary floating-point format with round-to-nearest-even, gradual        *)
(* underflow, overflow to Infinity, NaN and signed values; the format's    *)
(* precision and exponent range are bounds of the model (binary64 has a    *)
(* 53 bit significand and exponents -1074 .. 971 for its least significant *)
(* bit).                                                                   *)
(***************************************************************************)
EXTENDS Integers, Sequences, FiniteSets, TLC

(***************************************************************************)
(* Bounds of the number format.                                            *)
(***************************************************************************)
\* bits of the significand
PrecBits == 8
\* the smallest positive number is 2^(-ExpMin)
ExpMin == 6
\* the largest finite number is (2^PrecBits - 1) * 2^ExpMax
ExpMax == 12

(***************************************************************************)
(* JavaScript values.  k is the kind; a finite number is s * m * 2^e with  *)
(* m odd (m = 0, e = 0 for zero), so that equal numbers are equal records. *)
(***************************************************************************)
Undefined == [k |-> "undefined", s |-> 1, m |-> 0, e |-> 0]
NaN == [k |-> "NaN", s |-> 1, m |-> 0, e |-> 0]
Infinity(sg) == [k |-> "Infinity", s |-> sg, m |-> 0, e |-> 0]
Zero(sg) == [k |-> "num", s |-> sg, m |-> 0, e |-> 0]

RECURSIVE BitLen(_)
BitLen(n) == IF n = 0 THEN 0 ELSE 1 + BitLen(n \div 2)

Max2(a, b) == IF a >= b THEN a ELSE b

\* the number s * mm * 2^ee, mm >= 0, in canonical form; Infinity when it
\* exceeds the largest finite number
RECURSIVE Canon(_, _, _)
Canon(sg, mm, ee) ==
    IF mm = 0 THEN Zero(sg)
    ELSE IF mm % 2 = 0 THEN Canon(sg, mm \div 2, ee + 1)
    ELSE IF BitLen(mm) + ee > PrecBits + ExpMax THEN Infinity(sg)
    ELSE [k |-> "num", s |-> sg, m |-> mm, e |-> ee]

\* the exact value s * mm * 2^ee rounded to the format: to nearest, ties to
\* even, with the last place never below 2^(-ExpMin)
RoundToFormat(sg, mm, ee) ==
    LET len == BitLen(mm)
        sh == Max2(Max2(len - PrecBits, (0 - ExpMin) - ee), 0)
    IN  IF sh = 0 THEN Canon(sg, mm, ee)
        ELSE IF sh > len + 1 THEN Zero(sg)
        ELSE LET q == mm \div (2 ^ sh)
                 r == mm % (2 ^ sh)
                 half == 2 ^ (sh - 1)
                 up == (r > half) \/ (r = half /\ q % 2 = 1)
             IN  Canon(sg, IF up THEN q + 1 ELSE q, ee + sh)

\* an integer or a dyadic literal of the source as a number of the format
Num(n) == IF n < 0 THEN RoundToFormat(-1, 0 - n, 0) ELSE RoundToFormat(1, n, 0)

\* ToNumber on the values of the model: undefined converts to NaN
ToNumber(v) == IF v.k = "undefined" THEN NaN ELSE v

\* x * y of JavaScript
Times(x, y) ==
    LET a == ToNumber(x)
        b == ToNumber(y)
        sg == a.s * b.s
    IN  IF a.k = "NaN" \/ b.k = "NaN" THEN NaN
        ELSE IF a.k = "Infinity" \/ b.k = "Infinity"
             THEN IF (a.k = "num" /\ a.m = 0) \/ (b.k = "num" /\ b.m = 0)
                  THEN NaN ELSE Infinity(sg)
        ELSE RoundToFormat(sg, a.m * b.m, a.e + b.e)

\* x / y of JavaScript
Divide(x, y) ==
    LET a == ToNumber(x)
        b == ToNumber(y)
        sg == a.s * b.s
    IN  IF a.k = "NaN" \/ b.k = "NaN" THEN NaN
        ELSE IF a.k = "Infinity"
             THEN IF b.k = "Infinity" THEN NaN ELSE Infinity(sg)
        ELSE IF b.k = "Infinity" THEN Zero(sg)
        ELSE IF b.m = 0 THEN IF a.m = 0 THEN NaN ELSE Infinity(sg)
        ELSE IF a.m = 0 THEN Zero(sg)
        ELSE LET kk == 2 * PrecBits + 1
                 num == a.m * (2 ^ kk)
                 q == num \div b.m
                 sticky == IF num % b.m = 0 THEN 0 ELSE 1
             IN  RoundToFormat(sg, 2 * q + sticky, a.e - b.e - kk - 1)

\* x < 0 in place of x <= 0
LeqZero_strict(x) ==
    LET a == ToNumber(x)
    IN  CASE a.k = "NaN" -> FALSE
          [] a.k = "Infinity" -> a.s = -1
          [] OTHER -> a.m # 0 /\ a.s = -1

\* x <= 0 of JavaScript: false for NaN and for undefined
LeqZero(x) ==
    LET a == ToNumber(x)
    IN  CASE a.k = "NaN" -> FALSE
          [] a.k = "Infinity" -> a.s = -1
          [] OTHER -> a.m = 0 \/ a.s = -1

(***************************************************************************)
(* The values the operations are called with.                              *)
(***************************************************************************)
\* the smallest positive number of the format (5e-324 in binary64)
MIN_VALUE == Canon(1, 1, 0 - ExpMin)

\* the invalid values a caller passes: NaN, zero and a negative number
InvalidVals == {NaN, Num(0), Num(-1)}

\* the lengths a caller passes (telDiameter, telFocalLength, epFocalLength):
\* invalid values, the smallest positive number and lengths in millimetres
LengthVals == InvalidVals \cup {MIN_VALUE, Num(10), Num(200), Num(1000)}

\* the factors a caller passes (barlowFactor, focalReducerFactor): invalid
\* values, the smallest positive number and a dimensionless factor
FactorVals == InvalidVals \cup {MIN_VALUE, Num(10)}

\* a constructor argument may also be omitted (undefined)
Optional(vals) == vals \cup {Undefined}

(***************************************************************************)
(* State.                                                                  *)
(*   pc           "start" before `new TelescopeCalc(...)`, "object" once   *)
(*                it returned, "thrown" once it threw                      *)
(*   _telDiameter .. _focalReducerFactor   the object's five fields        *)
(*   call         the last call: its name and arguments                    *)
(*   ret          what the last call returned                              *)
(*   err          what the last call threw, caught or not (type "none":    *)
(*                nothing)                                                 *)
(*   lang         the lang attribute of the page's html element            *)
(*   hidden       the hidden property of the optional inputs and labels    *)
(*   checked      the checked property of the two check boxes              *)
(*   value        the text of the five input fields, as characters         *)
(*   display      textContent and style.fontStyle of the result elements   *)
(*   coreArgs     the arguments given to new TelescopeCalc by the run of   *)
(*                calcTelescopeCharacteristics that just ended; <<>> when  *)
(*                it did not get that far, and after any other event       *)
(***************************************************************************)
VARIABLES pc, _telDiameter, _telFocalLength, _epFocalLength, _barlowFactor,
          _focalReducerFactor, call, err, ret,
          lang, hidden, checked, value, display, coreArgs

fields == <<_telDiameter, _telFocalLength, _epFocalLength, _barlowFactor,
            _focalReducerFactor>>
coreVars == <<pc, _telDiameter, _telFocalLength, _epFocalLength, _barlowFactor,
              _focalReducerFactor, ret>>
formVars == <<lang, hidden, checked, value, display, coreArgs>>
vars == <<pc, _telDiameter, _telFocalLength, _epFocalLength, _barlowFactor,
          _focalReducerFactor, call, err, ret,
          lang, hidden, checked, value, display, coreArgs>>

NoError == [type |-> "none", message |-> ""]
TypeError(msg) == [type |-> "TypeError", message |-> msg]
RangeError(msg) == [type |-> "RangeError", message |-> msg]
SyntaxError(msg) == [type |-> "SyntaxError", message |-> msg]

(***************************************************************************)
(* class TelescopeCalc                                                     *)
(***************************************************************************)
\* a parameter without its default value
DefaultParam_ignored(arg, dflt) == arg

\* a default parameter value: used when the argument is undefined
DefaultParam(arg, dflt) == IF arg = Undefined THEN dflt ELSE arg

\* the constructor with its range checks ahead of its check for missing
\* arguments
constructor_rangeBeforeMissing(telDiameter, telFocalLength, epFocalLength, barlowArg, focalReducerArg) ==
    LET barlowFactor == DefaultParam(barlowArg, Num(1))
        focalReducerFactor == DefaultParam(focalReducerArg, Num(1))
        thrown ==
            IF LeqZero(telDiameter)
            THEN RangeError("argument telDiameter has to be greater than 0.")
            ELSE IF LeqZero(telFocalLength)
            THEN RangeError("argument telFocalLength has to be greater than 0.")
            ELSE IF LeqZero(epFocalLength)
            THEN RangeError("argument epFocalLength has to be greater than 0.")
            ELSE IF LeqZero(barlowFactor)
            THEN RangeError("argument barlowFactor has to be greater than 0.")
            ELSE IF LeqZero(focalReducerFactor)
            THEN RangeError("argument focalReducerFactor has to be greater than 0.")
            ELSE IF telDiameter = Undefined \/ telFocalLength = Undefined
                    \/ epFocalLength = Undefined
            THEN TypeError("arguments telDiameter, telFocalLength, epFocalLength are required.")
            ELSE NoError
    IN  [err |-> thrown,
         this |-> IF thrown = NoError
                  THEN <<telDiameter, telFocalLength, epFocalLength, barlowFactor,
                         focalReducerFactor>>
                  ELSE <<Undefined, Undefined, Undefined, Undefined, Undefined>>]

\* constructor(telDiameter, telFocalLength, epFocalLength, barlowFactor=1,
\* focalReducerFactor=1): what it throws, and the fields it assigns when it
\* throws nothing
constructor(telDiameter, telFocalLength, epFocalLength, barlowArg, focalReducerArg) ==
    LET barlowFactor == DefaultParam(barlowArg, Num(1))
        focalReducerFactor == DefaultParam(focalReducerArg, Num(1))
        thrown ==
            IF telDiameter = Undefined \/ telFocalLength = Undefined
               \/ epFocalLength = Undefined
            THEN TypeError("arguments telDiameter, telFocalLength, epFocalLength are required.")
            ELSE IF LeqZero(telDiameter)
            THEN RangeError("argument telDiameter has to be greater than 0.")
            ELSE IF LeqZero(telFocalLength)
            THEN RangeError("argument telFocalLength has to be greater than 0.")
            ELSE IF LeqZero(epFocalLength)
            THEN RangeError("argument epFocalLength has to be greater than 0.")
            ELSE IF LeqZero(barlowFactor)
            THEN RangeError("argument barlowFactor has to be greater than 0.")
            ELSE IF LeqZero(focalReducerFactor)
            THEN RangeError("argument focalReducerFactor has to be greater than 0.")
            ELSE NoError
    IN  [err |-> thrown,
         this |-> IF thrown = NoError
                  THEN <<telDiameter, telFocalLength, epFocalLength, barlowFactor,
                         focalReducerFactor>>
                  ELSE <<Undefined, Undefined, Undefined, Undefined, Undefined>>]

\* new TelescopeCalc(d, f, e, b, r)
New(d, f, e, b, r) ==
    \E res \in {constructor(d, f, e, b, r)} :
        /\ pc = "start"
        /\ call' = [op |-> "new", args |-> <<d, f, e, b, r>>]
        /\ err' = res.err
        /\ pc' = IF res.err = NoError THEN "object" ELSE "thrown"
        /\ _telDiameter' = res.this[1]
        /\ _telFocalLength' = res.this[2]
        /\ _epFocalLength' = res.this[3]
        /\ _barlowFactor' = res.this[4]
        /\ _focalReducerFactor' = res.this[5]
        /\ ret' = Undefined
        /\ UNCHANGED formVars

\* the getters
get_telDiameter == _telDiameter
get_telFocalLength == _telFocalLength
get_epFocalLength == _epFocalLength
get_barlowFactor == _barlowFactor
get_focalReducerFactor == _focalReducerFactor

\* the range check of a setter
SetterThrows(newValue, msg) == IF LeqZero(newValue) THEN RangeError(msg) ELSE NoError

\* set telDiameter(newTelDiameter)
set_telDiameter(newTelDiameter) ==
    LET thrown == SetterThrows(newTelDiameter, "telDiameter has to be greater than 0.")
    IN  /\ pc = "object"
        /\ call' = [op |-> "set telDiameter", args |-> <<newTelDiameter>>]
        /\ err' = thrown
        /\ _telDiameter' = IF thrown = NoError THEN newTelDiameter ELSE _telDiameter
        /\ ret' = Undefined
        /\ UNCHANGED <<pc, _telFocalLength, _epFocalLength, _barlowFactor,
                       _focalReducerFactor>>
        /\ UNCHANGED formVars

\* set telFocalLength(newFocalLength)
set_telFocalLength(newFocalLength) ==
    LET thrown == SetterThrows(newFocalLength, "focalLength has to be greater than 0.")
    IN  /\ pc = "object"
        /\ call' = [op |-> "set telFocalLength", args |-> <<newFocalLength>>]
        /\ err' = thrown
        /\ _telFocalLength' = IF thrown = NoError THEN newFocalLength ELSE _telFocalLength
        /\ ret' = Undefined
        /\ UNCHANGED <<pc, _telDiameter, _epFocalLength, _barlowFactor,
                       _focalReducerFactor>>
        /\ UNCHANGED formVars

\* the setter of epFocalLength assigning to _telFocalLength
set_epFocalLength_wrongField(newEpFocalLength) ==
    LET thrown == SetterThrows(newEpFocalLength, "epFocalLength has to be greater than 0.")
    IN  /\ pc = "object"
        /\ call' = [op |-> "set epFocalLength", args |-> <<newEpFocalLength>>]
        /\ err' = thrown
        /\ _telFocalLength' = IF thrown = NoError THEN newEpFocalLength ELSE _telFocalLength
        /\ ret' = Undefined
        /\ UNCHANGED <<pc, _telDiameter, _epFocalLength, _barlowFactor,
                       _focalReducerFactor>>
        /\ UNCHANGED formVars

\* set epFocalLength(newEpFocalLength)
set_epFocalLength(newEpFocalLength) ==
    LET thrown == SetterThrows(newEpFocalLength, "epFocalLength has to be greater than 0.")
    IN  /\ pc = "object"
        /\ call' = [op |-> "set epFocalLength", args |-> <<newEpFocalLength>>]
        /\ err' = thrown
        /\ _epFocalLength' = IF thrown = NoError THEN newEpFocalLength ELSE _epFocalLength
        /\ ret' = Undefined
        /\ UNCHANGED <<pc, _telDiameter, _telFocalLength, _barlowFactor,
                       _focalReducerFactor>>
        /\ UNCHANGED formVars

\* the setter of barlowFactor assigning before it checks
set_barlowFactor_assignFirst(newBarlowFactor) ==
    LET thrown == SetterThrows(newBarlowFactor, "barlowFactor has to be greater than 0.")
    IN  /\ pc = "object"
        /\ call' = [op |-> "set barlowFactor", args |-> <<newBarlowFactor>>]
        /\ err' = thrown
        /\ _barlowFactor' = newBarlowFactor
        /\ ret' = Undefined
        /\ UNCHANGED <<pc, _telDiameter, _telFocalLength, _epFocalLength,
                       _focalReducerFactor>>
        /\ UNCHANGED formVars

\* set barlowFactor(newBarlowFactor)
set_barlowFactor(newBarlowFactor) ==
    LET thrown == SetterThrows(newBarlowFactor, "barlowFactor has to be greater than 0.")
    IN  /\ pc = "object"
        /\ call' = [op |-> "set barlowFactor", args |-> <<newBarlowFactor>>]
        /\ err' = thrown
        /\ _barlowFactor' = IF thrown = NoError THEN newBarlowFactor ELSE _barlowFactor
        /\ ret' = Undefined
        /\ UNCHANGED <<pc, _telDiameter, _telFocalLength, _epFocalLength,
                       _focalReducerFactor>>
        /\ UNCHANGED formVars

\* set focalReducerFactor(newFRedFactor)
set_focalReducerFactor(newFRedFactor) ==
    LET thrown == SetterThrows(newFRedFactor, "focalReducerFactor has to be greater than 0.")
    IN  /\ pc = "object"
        /\ call' = [op |-> "set focalReducerFactor", args |-> <<newFRedFactor>>]
        /\ err' = thrown
        /\ _focalReducerFactor' = IF thrown = NoError THEN newFRedFactor
                                  ELSE _focalReducerFactor
        /\ ret' = Undefined
        /\ UNCHANGED <<pc, _telDiameter, _telFocalLength, _epFocalLength,
                       _barlowFactor>>
        /\ UNCHANGED formVars

(***************************************************************************)
(* The derived computations, on an object given by its five fields         *)
(* this = <<_telDiameter, _telFocalLength, _epFocalLength, _barlowFactor,  *)
(* _focalReducerFactor>>.                                                  *)
(***************************************************************************)
\* the exit pupil assumed by calcLowerMagnificationLimit
LowerLimitExitPupil == 6
\* the factor of calcUpperMagnificationLimit
UpperLimitFactor == 2
\* the constant of calcDawesLimit
DawesConstant == 116

calcMagnification(this) == Divide(Times(Times(this[4], this[2]), this[5]), this[3])

calcLowerMagnificationLimit(this) == Divide(this[1], Num(LowerLimitExitPupil))

calcUpperMagnificationLimit(this) == Times(Num(UpperLimitFactor), this[1])

calcFocalRatio(this) == Times(Divide(Times(this[4], this[2]), this[1]), this[5])

\* the exit pupil from the magnification without the two factors
calcExitPupil_noFactors(this) == Divide(this[1], Divide(this[2], this[3]))

calcExitPupil(this) == Divide(this[1], calcMagnification(this))

calcDawesLimit(this) == Divide(Num(DawesConstant), this[1])

\* a call of a calc* method: it assigns nothing to the object
CalcCall(name, result) ==
    /\ pc = "object"
    /\ call' = [op |-> name, args |-> <<>>]
    /\ err' = NoError
    /\ ret' = result
    /\ UNCHANGED <<pc, _telDiameter, _telFocalLength, _epFocalLength, _barlowFactor,
                   _focalReducerFactor>>
    /\ UNCHANGED formVars

\* calcExitPupil keeping the magnification it computed in the object
CallCalcExitPupil_storing ==
    /\ pc = "object"
    /\ call' = [op |-> "calcExitPupil", args |-> <<>>]
    /\ err' = NoError
    /\ ret' = calcExitPupil(fields)
    /\ _epFocalLength' = calcMagnification(fields)
    /\ UNCHANGED <<pc, _telDiameter, _telFocalLength, _barlowFactor, _focalReducerFactor>>
    /\ UNCHANGED formVars

CallCalcMagnification == CalcCall("calcMagnification", calcMagnification(fields))
CallCalcLowerMagnificationLimit ==
    CalcCall("calcLowerMagnificationLimit", calcLowerMagnificationLimit(fields))
CallCalcUpperMagnificationLimit ==
    CalcCall("calcUpperMagnificationLimit", calcUpperMagnificationLimit(fields))
CallCalcFocalRatio == CalcCall("calcFocalRatio", calcFocalRatio(fields))
CallCalcExitPupil == CalcCall("calcExitPupil", calcExitPupil(fields))
CallCalcDawesLimit == CalcCall("calcDawesLimit", calcDawesLimit(fields))

(***************************************************************************)
(* telescopeCalcInterface.js: the handlers of the form.                    *)
(***************************************************************************)
InputIds == {"telDiameter", "telFocalLength", "epFocalLength", "barlowPower",
             "fReducerFactor"}
ResultIds == {"magResult", "lowerMagLimit", "upperMagLimit", "fRatioResult",
              "dawesLimitRes"}

\* the text a field holds after the form's reset()
DefaultText == <<"0">>

\* the texts a user types into a field
Texts == {<<"0">>, <<"2">>, <<"a">>}

Digits == <<"0", "1", "2", "3", "4", "5", "6", "7", "8", "9">>
IsDigit(c) == \E i \in 1..10 : Digits[i] = c
DigitValue(c) == (CHOOSE i \in 1..10 : Digits[i] = c) - 1

RECURSIVE DecimalValue(_)
DecimalValue(str) ==
    IF str = <<>> THEN 0
    ELSE 10 * DecimalValue(SubSeq(str, 1, Len(str) - 1)) + DigitValue(str[Len(str)])

\* Number(text) for the texts of the model: the empty text is 0, decimal
\* digits with an optional sign are that integer, anything else is NaN
Number(str) ==
    LET signed == str # <<>> /\ str[1] \in {"-", "+"}
        body == IF signed THEN Tail(str) ELSE str
    IN  IF str = <<>> THEN Num(0)
        ELSE IF body = <<>> \/ \E i \in 1..Len(body) : ~IsDigit(body[i]) THEN NaN
        ELSE IF signed /\ str[1] = "-" THEN Num(0 - DecimalValue(body))
        ELSE Num(DecimalValue(body))

\* isNaN(x)
isNaN(x) == ToNumber(x).k = "NaN"

RECURSIVE DecimalDigits(_)
DecimalDigits(n) ==
    IF n < 10 THEN <<Digits[n + 1]>>
    ELSE DecimalDigits(n \div 10) \o <<Digits[(n % 10) + 1]>>

\* x.toFixed(2): the integer nearest to 100 * x (the larger of two), written
\* with two digits after the point
toFixed2(x) ==
    LET a == ToNumber(x)
        hundredths ==
            IF a.e >= 0 THEN a.m * (2 ^ a.e) * 100
            ELSE (a.m * 200 + 2 ^ (0 - a.e)) \div (2 ^ (1 - a.e))
        whole == DecimalDigits(hundredths \div 100)
        frac == <<Digits[((hundredths \div 10) % 10) + 1], Digits[(hundredths % 10) + 1]>>
    IN  CASE a.k = "NaN" -> <<"NaN">>
          [] a.k = "Infinity" -> IF a.s = -1 THEN <<"-Infinity">> ELSE <<"Infinity">>
          [] OTHER -> (IF a.s = -1 /\ hundredths # 0 THEN <<"-">> ELSE <<>>)
                      \o whole \o <<".">> \o frac

\* showBarlowBox(event): the change event of the includeBarlow check box
showBarlowBox ==
    LET nowChecked == ~checked["includeBarlow"]
    IN  /\ checked' = [checked EXCEPT !["includeBarlow"] = nowChecked]
        /\ hidden' = [hidden EXCEPT !["barlowLabel"] = ~nowChecked,
                                    !["barlowPower"] = ~nowChecked]
        /\ call' = [op |-> "showBarlowBox", args |-> <<>>]
        /\ err' = NoError
        /\ coreArgs' = <<>>
        /\ UNCHANGED <<lang, value, display>>
        /\ UNCHANGED coreVars

\* showFocalReducerBox(event): the change event of the includeFocalReducer
\* check box
showFocalReducerBox ==
    LET nowChecked == ~checked["includeFocalReducer"]
    IN  /\ checked' = [checked EXCEPT !["includeFocalReducer"] = nowChecked]
        /\ hidden' = [hidden EXCEPT !["fReducerLabel"] = ~nowChecked,
                                    !["fReducerFactor"] = ~nowChecked]
        /\ call' = [op |-> "showFocalReducerBox", args |-> <<>>]
        /\ err' = NoError
        /\ coreArgs' = <<>>
        /\ UNCHANGED <<lang, value, display>>
        /\ UNCHANGED coreVars

\* resetForm()
resetForm ==
    /\ value' = [id \in InputIds |-> DefaultText]
    /\ checked' = [id \in DOMAIN checked |-> FALSE]
    /\ display' = [id \in ResultIds |-> [textContent |-> <<>>, fontStyle |-> ""]]
    /\ hidden' = [hidden EXCEPT !["barlowLabel"] = TRUE, !["barlowPower"] = TRUE,
                                !["fReducerLabel"] = TRUE, !["fReducerFactor"] = TRUE]
    /\ call' = [op |-> "resetForm", args |-> <<>>]
    /\ err' = NoError
    /\ coreArgs' = <<>>
    /\ UNCHANGED lang
    /\ UNCHANGED coreVars

\* the user types into an input field that is shown
EditText(id, text) ==
    /\ id \in DOMAIN hidden => ~hidden[id]
    /\ value' = [value EXCEPT ![id] = text]
    /\ call' = [op |-> "input", args |-> <<>>]
    /\ err' = NoError
    /\ coreArgs' = <<>>
    /\ UNCHANGED <<lang, hidden, checked, display>>
    /\ UNCHANGED coreVars

\* an optional factor read from its field whether hidden or not
OptionalFactor_always(id) == Number(value[id])

\* an optional factor of inputData: 1.0, replaced by the field's number when
\* the field is not hidden
OptionalFactor(id) == IF ~hidden[id] THEN Number(value[id]) ELSE Num(1)

\* inputData, in the order of its keys
inputData ==
    <<Number(value["telDiameter"]), Number(value["telFocalLength"]),
      Number(value["epFocalLength"]), OptionalFactor("barlowPower"),
      OptionalFactor("fReducerFactor")>>

inputKeys == <<"telDiameter", "telFocalLength", "epFocalLength", "barlowFactor",
               "focalReducerFactor">>

incorrectTypeErrorMessage ==
    IF lang = "es"
    THEN "Error: dato de entrada incorrecto, por favor revise que las entradas sean numeros."
    ELSE "Error: Incorrect input type, please check that your inputs are numbers."

rangeErrorMessage ==
    IF lang = "es"
    THEN "Error: Por favor revise que las longitudes focales de telescopio, ocular, el aumento de la lente de Barlow y/o el factor de reduccion focal sean positivos."
    ELSE "Error: Please check that the telescope and eyepiece focal lengths, Barlow lens power and/or Focal reducer factor are positive."

\* what the try block throws for the input data, and the object it makes
tryBlock(data) ==
    LET notNumbers == {i \in 1..5 : isNaN(data[i])}
        firstNaN == CHOOSE i \in notNumbers : \A j \in notNumbers : i <= j
        made == constructor(data[1], data[2], data[3], data[4], data[5])
    IN  IF notNumbers # {}
        THEN [thrown |-> SyntaxError("Textbox input for " \o inputKeys[firstNaN]
                                     \o " is not a number."),
              passed |-> <<>>, telescope |-> made.this]
        ELSE [thrown |-> made.err, passed |-> data, telescope |-> made.this]

\* the result elements after the try block and its catch
resultContainers(thrown, telescope) ==
    LET shown(text) == [textContent |-> text, fontStyle |-> ""]
        message(text) == [textContent |-> <<text>>, fontStyle |-> "italic"]
    IN  CASE thrown.type = "RangeError" ->
               [id \in ResultIds |-> message(rangeErrorMessage)]
          [] thrown.type = "SyntaxError" ->
               [id \in ResultIds |-> message(incorrectTypeErrorMessage)]
          [] thrown.type = "none" ->
               [id \in ResultIds |->
                  CASE id = "magResult" ->
                         shown(toFixed2(calcMagnification(telescope)) \o <<" x">>)
                    [] id = "lowerMagLimit" ->
                         shown(toFixed2(calcLowerMagnificationLimit(telescope)) \o <<" x">>)
                    [] id = "upperMagLimit" ->
                         shown(toFixed2(calcUpperMagnificationLimit(telescope)) \o <<" x">>)
                    [] id = "fRatioResult" ->
                         shown(toFixed2(calcFocalRatio(telescope)))
                    [] id = "dawesLimitRes" ->
                         shown(toFixed2(calcDawesLimit(telescope)) \o <<" arcsec">>)]
          [] OTHER ->
               [id \in ResultIds |-> [display[id] EXCEPT !.fontStyle = ""]]

\* calcTelescopeCharacteristics()
calcTelescopeCharacteristics ==
    \E run \in {tryBlock(inputData)} :
        /\ coreArgs' = run.passed
        /\ display' = resultContainers(run.thrown, run.telescope)
        /\ call' = [op |-> "calcTelescopeCharacteristics", args |-> <<>>]
        /\ err' = run.thrown
        /\ UNCHANGED <<lang, hidden, checked, value>>
        /\ UNCHANGED coreVars

(***************************************************************************)
(* The object and its callers.                                             *)
(***************************************************************************)
\* the page as loaded: the state resetForm restores
FormInit ==
    /\ lang \in {"en", "es"}
    /\ hidden = [id \in {"barlowLabel", "barlowPower", "fReducerLabel", "fReducerFactor"}
                   |-> TRUE]
    /\ checked = [id \in {"includeBarlow", "includeFocalReducer"} |-> FALSE]
    /\ value = [id \in InputIds |-> DefaultText]
    /\ display = [id \in ResultIds |-> [textContent |-> <<>>, fontStyle |-> ""]]
    /\ coreArgs = <<>>

\* no object yet
NoObject ==
    /\ pc = "start"
    /\ _telDiameter = Undefined
    /\ _telFocalLength = Undefined
    /\ _epFocalLength = Undefined
    /\ _barlowFactor = Undefined
    /\ _focalReducerFactor = Undefined
    /\ call = [op |-> "none", args |-> <<>>]
    /\ err = NoError
    /\ ret = Undefined

\* the class used on its own, without a page
NoDocument ==
    /\ lang = ""
    /\ hidden = <<>>
    /\ checked = <<>>
    /\ value = <<>>
    /\ display = <<>>
    /\ coreArgs = <<>>

Init == NoObject /\ NoDocument

Next ==
    \/ pc = "start" /\ \E d, f, e \in Optional(LengthVals), b, r \in Optional(FactorVals) :
                          New(d, f, e, b, r)
    \/ \E v \in LengthVals : set_telDiameter(v)
    \/ \E v \in LengthVals : set_telFocalLength(v)
    \/ \E v \in LengthVals : set_epFocalLength(v)
    \/ \E v \in FactorVals : set_barlowFactor(v)
    \/ \E v \in FactorVals : set_focalReducerFactor(v)
    \/ CallCalcMagnification
    \/ CallCalcLowerMagnificationLimit
    \/ CallCalcUpperMagnificationLimit
    \/ CallCalcFocalRatio
    \/ CallCalcExitPupil
    \/ CallCalcDawesLimit

Spec == Init /\ [][Next]_vars

\* the form under its user
NextUI ==
    \/ showBarlowBox
    \/ showFocalReducerBox
    \/ resetForm
    \/ \E id \in InputIds, text \in Texts : EditText(id, text)
    \/ calcTelescopeCharacteristics

InitUI == NoObject /\ FormInit

SpecUI == InitUI /\ [][NextUI]_vars
(***************************************************************************)
(* Properties.                                                             *)
(***************************************************************************)
SetterOps == <<"set telDiameter", "set telFocalLength", "set epFocalLength",
               "set barlowFactor", "set focalReducerFactor">>
CalcOps == {"calcMagnification", "calcLowerMagnificationLimit",
            "calcUpperMagnificationLimit", "calcFocalRatio", "calcExitPupil",
            "calcDawesLimit"}
IsZero(x) == x.k = "num" /\ x.m = 0
\* a number that is > 0
Positive(x) == (x.k = "num" /\ x.m > 0 /\ x.s = 1) \/ (x.k = "Infinity" /\ x.s = 1)
\* a number that is <= 0
NonPositive(x) == (x.k = "num" /\ (x.m = 0 \/ x.s = -1)) \/ (x.k = "Infinity" /\ x.s = -1)
AllPositive == \A i \in 1..5 : Positive(fields[i])
AllUndefined == \A i \in 1..5 : fields[i] = Undefined

\* C1: once construction has succeeded, after any setter calls with any
\* argument values, all five stored fields are strictly greater than 0.
C1_AllFieldsPositive == pc = "object" => AllPositive

\* C2: constructing with strictly positive values (the fourth and fifth
\* possibly omitted) succeeds, the five getters return exactly the values
\* given, and an omitted factor reads as 1.
C2_ConstructValid ==
    (/\ call.op = "new"
     /\ \A i \in 1..3 : Positive(call.args[i])
     /\ \A i \in 4..5 : call.args[i] = Undefined \/ Positive(call.args[i]))
    => /\ pc = "object"
       /\ err = NoError
       /\ get_telDiameter = call.args[1]
       /\ get_telFocalLength = call.args[2]
       /\ get_epFocalLength = call.args[3]
       /\ get_barlowFactor = (IF call.args[4] = Undefined THEN Num(1) ELSE call.args[4])
       /\ get_focalReducerFactor =
            (IF call.args[5] = Undefined THEN Num(1) ELSE call.args[5])

C2_Witness ==
    /\ call.op = "new"
    /\ call.args = <<Num(200), Num(1000), Num(10), Undefined, Num(10)>>
    /\ pc = "object"
    /\ get_barlowFactor = Num(1)
    /\ get_focalReducerFactor = Num(10)

\* C3: construction throws a TypeError when any of the first three arguments
\* is omitted, and a RangeError when all three are given and any of the five
\* values is <= 0; either way no object is produced and no field is assigned.
C3_ConstructInvalid ==
    call.op = "new" =>
        /\ (\E i \in 1..3 : call.args[i] = Undefined)
           => (err.type = "TypeError" /\ pc = "thrown" /\ AllUndefined)
        /\ ((\A i \in 1..3 : call.args[i] # Undefined)
            /\ (\E i \in 1..5 : NonPositive(call.args[i])))
           => (err.type = "RangeError" /\ pc = "thrown" /\ AllUndefined)

C3_Witness ==
    /\ call.op = "new"
    /\ call.args = <<Num(200), Num(1000), Num(10), Num(10), Num(0)>>
    /\ err.type = "RangeError"
    /\ pc = "thrown"

\* C4: a setter called with a value <= 0 throws a RangeError and leaves all
\* five fields, the targeted one included, as they were.
C4_SetterRejects ==
    [][(/\ \E i \in 1..5 : call'.op = SetterOps[i]
        /\ NonPositive(call'.args[1]))
       => (err'.type = "RangeError" /\ fields' = fields /\ pc' = pc)]_vars

C4_Witness ==
    /\ call = [op |-> "set barlowFactor", args |-> <<Num(0)>>]
    /\ err.type = "RangeError"
    /\ fields = <<Num(200), Num(1000), Num(10), Num(10), Num(1)>>

\* C5: a setter called with a value > 0 succeeds in every state of the
\* object, whatever the other fields hold; the targeted field becomes exactly
\* the new value and the other four fields keep theirs.
C5_SetterAccepts ==
    [][\A i \in 1..5 :
         (call'.op = SetterOps[i] /\ Positive(call'.args[1]))
         => /\ err' = NoError
            /\ pc' = pc
            /\ fields'[i] = call'.args[1]
            /\ \A j \in (1..5) \ {i} : fields'[j] = fields[j]]_vars

C5_Witness ==
    /\ call = [op |-> "set epFocalLength", args |-> <<Num(200)>>]
    /\ err = NoError
    /\ fields = <<Num(200), Num(1000), Num(200), Num(1), MIN_VALUE>>

\* C6 as amended: the value a derived computation returns is its formula on
\* the fields as they are when it is called, with calcFocalRatio computed as
\* (barlowFactor * telFocalLength / telDiameter) * focalReducerFactor; with
\* d=200, f=1000, e=10, b=r=1 the magnification is 100 and the exit pupil 2.
C6_DerivedFormulas ==
    pc = "object" =>
        /\ call.op = "calcMagnification" =>
             ret = Divide(Times(Times(_barlowFactor, _telFocalLength),
                                _focalReducerFactor), _epFocalLength)
        /\ call.op = "calcLowerMagnificationLimit" => ret = Divide(_telDiameter, Num(6))
        /\ call.op = "calcUpperMagnificationLimit" => ret = Times(Num(2), _telDiameter)
        /\ call.op = "calcFocalRatio" =>
             ret = Times(Divide(Times(_barlowFactor, _telFocalLength), _telDiameter),
                         _focalReducerFactor)
        /\ call.op = "calcExitPupil" =>
             ret = Divide(_telDiameter,
                          Divide(Times(Times(_barlowFactor, _telFocalLength),
                                       _focalReducerFactor), _epFocalLength))
        /\ call.op = "calcDawesLimit" => ret = Divide(Num(116), _telDiameter)
        /\ fields = <<Num(200), Num(1000), Num(10), Num(1), Num(1)>> =>
             /\ call.op = "calcMagnification" => ret = Num(100)
             /\ call.op = "calcExitPupil" => ret = Num(2)

C6_Witness ==
    /\ call.op = "calcExitPupil"
    /\ fields = <<Num(200), Num(1000), Num(10), Num(1), Num(1)>>
    /\ ret = Num(2)

\* C6 as claimed, for calcFocalRatio on an object whose five fields are > 0:
\* it returns barlowFactor * telFocalLength * focalReducerFactor / telDiameter.
C6_FocalRatioAsClaimed ==
    (pc = "object" /\ AllPositive /\ call.op = "calcFocalRatio") =>
        ret = Divide(Times(Times(_barlowFactor, _telFocalLength), _focalReducerFactor),
                     _telDiameter)

\* C7: a derived computation changes none of the five fields, and the same
\* computation called again right away returns the same value.
C7_CalcPure ==
    [][call'.op \in CalcOps
       => /\ fields' = fields
          /\ pc' = pc
          /\ err' = NoError
          /\ call.op = call'.op => ret' = ret]_vars

C7_Witness ==
    /\ call.op = "calcFocalRatio"
    /\ fields = <<Num(200), Num(1000), Num(10), Num(1), Num(1)>>
    /\ ret = Num(5)

\* C8, for an object whose five fields are > 0: no derived computation
\* divides by zero, that is epFocalLength, telDiameter and the value of
\* calcMagnification are all non-zero.
C8_NoDivisionByZero ==
    (pc = "object" /\ AllPositive) =>
        /\ ~IsZero(_epFocalLength)
        /\ ~IsZero(_telDiameter)
        /\ ~IsZero(Divide(Times(Times(_barlowFactor, _telFocalLength),
                                _focalReducerFactor), _epFocalLength))

\* C9: the constructor reports only the first failing check: the missing
\* argument check before any range check, then the range checks in the order
\* telDiameter, telFocalLength, epFocalLength, barlowFactor,
\* focalReducerFactor, the RangeError naming the earliest field that is <= 0.
C9_FirstFailureReported ==
    call.op = "new" =>
        LET names == <<"telDiameter", "telFocalLength", "epFocalLength", "barlowFactor",
                       "focalReducerFactor">>
            bad == {i \in 1..5 : NonPositive(call.args[i])}
            first == CHOOSE i \in bad : \A j \in bad : i <= j
        IN  IF \E i \in 1..3 : call.args[i] = Undefined
            THEN err.type = "TypeError"
            ELSE IF bad # {}
            THEN err = RangeError("argument " \o names[first]
                                  \o " has to be greater than 0.")
            ELSE err = NoError

C9_Witness ==
    /\ call.op = "new"
    /\ call.args = <<Num(200), Num(0), Undefined, Num(-1), Num(0)>>
    /\ err.type = "TypeError"

\* C10: when calcTelescopeCharacteristics calls the constructor, it passes 1
\* as barlowFactor if the Barlow input is hidden and 1 as focalReducerFactor
\* if the focal reducer input is hidden, whatever text the hidden input
\* holds, and the number of the input's text if the input is shown; after
\* resetForm both inputs are hidden.
C10_HiddenFactorIsOne ==
    /\ (call.op = "calcTelescopeCharacteristics" /\ coreArgs # <<>>) =>
          /\ coreArgs[4] = (IF hidden["barlowPower"] THEN Num(1)
                            ELSE Number(value["barlowPower"]))
          /\ coreArgs[5] = (IF hidden["fReducerFactor"] THEN Num(1)
                            ELSE Number(value["fReducerFactor"]))
    /\ call.op = "resetForm" => (hidden["barlowPower"] /\ hidden["fReducerFactor"])

C10_Witness ==
    /\ call.op = "calcTelescopeCharacteristics"
    /\ hidden["barlowPower"]
    /\ value["barlowPower"] = <<"2">>
    /\ ~hidden["fReducerFactor"]
    /\ value["fReducerFactor"] = <<"2">>
    /\ coreArgs = <<Num(2), Num(2), Num(2), Num(1), Num(2)>>
====
